---------------------------- MODULE Spec2Model ----------------------------
(***************************************************************************)
(* Model of taichi_three/objects.py: the batched ray-testable primitives   *)
(* (ObjectRT / Ball) and the batched screen-space primitives (ObjectGE /   *)
(* Line / Triangle).                                                       *)
(*                                                                         *)
(* Numbers: every f32 of the program is a fixed-point integer counting     *)
(* 1/Scale units; products, quotients and square roots round (towards      *)
(* minus infinity) to that grid, so a value computed twice by two          *)
(* different formulas may differ, as it may in f32.                        *)
(*                                                                         *)
(* The camera and the shading are collaborators of this file: Line and     *)
(* Triangle instances are given by the screen coordinates                  *)
(* scene.uncook_coor(scene.camera.untrans_pos(.)) yields, a Triangle also  *)
(* by the colour scene.opt.render_func / pre_process yield.                *)
(*                                                                         *)
(* Three specifications: SpecRT (calc_sdf and intersect over a Ball        *)
(* batch), SpecLine (render over a Line batch, render_stroke of a          *)
(* Triangle), SpecTri (render over a Triangle batch).                      *)
(***************************************************************************)
EXTENDS Integers, Sequences, FiniteSets, TLC

VARIABLES
    pc,        \* which routine runs, and whether it has returned
    pos,       \* Ball.pos     : the batch's centres  (parallel array)
    radius,    \* Ball.radius  : the batch's radii    (parallel array)
    p,         \* calc_sdf's argument
    orig,      \* intersect's argument
    dir,       \* intersect's argument
    I,         \* the batch loop's index (ti.ndrange over the batch)
    ret,       \* calc_sdf / intersect: the running minimum
    normal,    \* intersect: the normal kept with the running minimum
    a, b, c,   \* Line.a, Line.b / Triangle.a, .b, .c (parallel arrays,
               \* given as the screen coordinates uncook_coor yields)
    color,     \* Triangle: the flat colour render_func/pre_process yield
    img,       \* scene.img : pixel -> <<r, g, b>>
    img0,      \* scene.img as it was before the render pass
    X,         \* per instance: index of the next pixel of its bounding box
    wrote      \* per instance: pixel -> how the instance wrote it

vars == <<pc, pos, radius, p, orig, dir, I, ret, normal,
          a, b, c, color, img, img0, X, wrote>>

rtVars == <<pos, radius, p, orig, dir, I, ret, normal>>
geVars == <<a, b, c, color, img, img0, X, wrote>>

---------------------------------------------------------------------------
(* Bounds of the model *)

MaxBatch == 2     \* instances per Ball batch
MaxCoord == 2     \* Ball centres have x in 0..MaxCoord (and y in 0..1, z = 0)
MaxPix   == 3     \* screen coordinates of Line endpoints lie in 1..MaxPix

---------------------------------------------------------------------------
(* f32 arithmetic on the 1/Scale grid *)

Scale == 100

\* EPS and INF are imported from taichi_three/common.py
EPS == 1
INF == 10000

Min(x, y) == IF y < x THEN y ELSE x
Max(x, y) == IF y > x THEN y ELSE x

Mul(x, y) == (x * y) \div Scale
Div(x, y) == IF y < 0 THEN ((0 - x) * Scale) \div (0 - y)
                      ELSE (x * Scale) \div y

RECURSIVE ISqrtBetween(_, _, _)
ISqrtBetween(n, lo, hi) ==
    IF lo >= hi THEN lo
    ELSE LET mid == (lo + hi + 1) \div 2
         IN  IF mid * mid <= n THEN ISqrtBetween(n, mid, hi)
                               ELSE ISqrtBetween(n, lo, mid - 1)

\* floor of the square root of the integer n, 0 <= n < 2^31
ISqrt(n) == ISqrtBetween(n, 0, 46340)

\* ti.sqrt on the grid
Sqrt(x) == ISqrt(x * Scale)

---------------------------------------------------------------------------
(* taichi_glsl vector functions, on vec3 = <<x, y, z>> *)

vec3(x) == <<x, x, x>>
Sub3(u, v) == <<u[1] - v[1], u[2] - v[2], u[3] - v[3]>>
Times3(u, k) == <<Mul(u[1], k), Mul(u[2], k), Mul(u[3], k)>>
dot3(u, v) == Mul(u[1], v[1]) + Mul(u[2], v[2]) + Mul(u[3], v[3])
norm_sqr3(u) == dot3(u, u)
length3(u) == Sqrt(norm_sqr3(u))
distance(u, v) == length3(Sub3(u, v))

\* v / length(v); the quotient by a zero length is not a number
\* (a component no computation on the grid yields)
NaN3 == <<INF * INF, INF * INF, INF * INF>>
normalize(v) ==
    LET l == length3(v)
    IN  IF l = 0 THEN NaN3 ELSE <<Div(v[1], l), Div(v[2], l), Div(v[3], l)>>

---------------------------------------------------------------------------
(* Ball *)

\* Ball.make_one: the instance at index i of the batch
BallMakeOne(i) == [pos |-> pos[i], radius |-> radius[i]]

\* variant of do_calc_sdf: the radius added instead of subtracted
do_calc_sdf_plus(self, q) == distance(self.pos, q) + self.radius

\* Ball.do_calc_sdf
do_calc_sdf(self, q) == distance(self.pos, q) - self.radius

\* the discriminant of Ball.do_intersect, before the square root
BallDet(self, o, d) ==
    LET op == Sub3(self.pos, o)
        bb == dot3(op, d)
    IN  Mul(bb, bb) - norm_sqr3(op) + Mul(self.radius, self.radius)

\* variant of BallT: a zero discriminant accepted
BallT_tangent_hits(self, o, d) ==
    LET op  == Sub3(self.pos, o)
        bb  == dot3(op, d)
        det == BallDet(self, o, d)
    IN  IF det >= 0
        THEN LET sq == Sqrt(det)
             IN  IF bb - sq > EPS THEN bb - sq
                 ELSE IF bb + sq > EPS THEN bb + sq
                 ELSE INF
        ELSE INF

\* variant of BallT: the far root tried before the near one
BallT_far_first(self, o, d) ==
    LET op  == Sub3(self.pos, o)
        bb  == dot3(op, d)
        det == BallDet(self, o, d)
    IN  IF det > 0
        THEN LET sq == Sqrt(det)
             IN  IF bb + sq > EPS THEN bb + sq
                 ELSE IF bb - sq > EPS THEN bb - sq
                 ELSE INF
        ELSE INF

\* the distance Ball.do_intersect returns
BallT(self, o, d) ==
    LET op  == Sub3(self.pos, o)
        bb  == dot3(op, d)
        det == BallDet(self, o, d)
    IN  IF det > 0
        THEN LET sq == Sqrt(det)
             IN  IF bb - sq > EPS THEN bb - sq
                 ELSE IF bb + sq > EPS THEN bb + sq
                 ELSE INF
        ELSE INF

\* Ball.do_intersect: <<distance, normal>>
do_intersect(self, o, d) ==
    LET t == BallT(self, o, d)
    IN  <<t, normalize(Sub3(Times3(d, t), Sub3(self.pos, o)))>>

---------------------------------------------------------------------------
(* ObjectRT: the folds over the batch *)

Centres == {<<x * Scale, y * Scale, 0>> : x \in 0..MaxCoord, y \in 0..1}
Radii   == {Scale, 2 * Scale}
Points  == {<<0, 0, 0>>, <<Scale, Scale, 0>>}
Dirs    == {<<Scale, 0, 0>>, <<0, Scale, 0>>, <<0 - Scale, 0, 0>>,
            <<(3 * Scale) \div 5, (4 * Scale) \div 5, 0>>}

Idle3 == <<0, 0, 0>>

InitGEIdle ==
    /\ a = <<>> /\ b = <<>> /\ c = <<>> /\ color = <<>>
    /\ img = <<>> /\ img0 = <<>> /\ X = <<>> /\ wrote = <<>>

InitRT ==
    /\ \E n \in 1..MaxBatch :
          /\ pos \in [1..n -> Centres]
          /\ radius \in [1..n -> Radii]
    /\ \/ /\ pc = "calc_sdf"
          /\ p \in Points
          /\ orig = Idle3 /\ dir = Idle3
       \/ /\ pc = "intersect"
          /\ p = Idle3
          /\ orig \in Points
          /\ dir \in Dirs
    /\ I = 1
    /\ ret = INF
    /\ normal = vec3(0)
    /\ InitGEIdle

\* ObjectRT.calc_sdf, one iteration of its loop
CalcSdfStep ==
    /\ pc = "calc_sdf"
    /\ I <= Len(pos)
    /\ ret' = Min(ret, do_calc_sdf(BallMakeOne(I), p))
    /\ I' = I + 1
    /\ UNCHANGED <<pc, pos, radius, p, orig, dir, normal>>
    /\ UNCHANGED geVars

\* ObjectRT.calc_sdf, return ret
CalcSdfReturn ==
    /\ pc = "calc_sdf"
    /\ I > Len(pos)
    /\ pc' = "calc_sdf_done"
    /\ UNCHANGED rtVars
    /\ UNCHANGED geVars

\* variant of Replaces: <= for <
Replaces_le(t, r) == t <= r

\* ObjectRT.intersect: if t < ret
Replaces(t, r) == t < r

\* ObjectRT.intersect, one iteration of its loop
IntersectStep ==
    /\ pc = "intersect"
    /\ I <= Len(pos)
    /\ LET tn == do_intersect(BallMakeOne(I), orig, dir)
       IN  IF Replaces(tn[1], ret)
           THEN ret' = tn[1] /\ normal' = tn[2]
           ELSE UNCHANGED <<ret, normal>>
    /\ I' = I + 1
    /\ UNCHANGED <<pc, pos, radius, p, orig, dir>>
    /\ UNCHANGED geVars

\* ObjectRT.intersect, return ret, normal
IntersectReturn ==
    /\ pc = "intersect"
    /\ I > Len(pos)
    /\ pc' = "intersect_done"
    /\ UNCHANGED rtVars
    /\ UNCHANGED geVars

NextRT == CalcSdfStep \/ CalcSdfReturn \/ IntersectStep \/ IntersectReturn

SpecRT == InitRT /\ [][NextRT]_vars

---------------------------------------------------------------------------
(* taichi_glsl vector functions, on vec2 = <<x, y>>, and the pixel grid *)

Sub2(u, v) == <<u[1] - v[1], u[2] - v[2]>>
dot2(u, v) == Mul(u[1], v[1]) + Mul(u[2], v[2])
cross2(u, v) == Mul(u[1], v[2]) - Mul(u[2], v[1])
norm_sqr2(u) == dot2(u, u)
length2(u) == Sqrt(norm_sqr2(u))

\* int(ti.floor(x)), int(ti.ceil(x))
Floor(x) == x \div Scale
Ceil(x) == 0 - ((0 - x) \div Scale)

\* the integer pixel X as the float vector the arithmetic uses
ToFloat(Xp) == <<Xp[1] * Scale, Xp[2] * Scale>>

clamp01(x) == Max(0, Min(Scale, x))

\* ts.smoothstep(x, a, b)
smoothstep(x, e0, e1) ==
    LET t == clamp01(Div(x - e0, e1 - e0))
    IN  Mul(Mul(t, t), 3 * Scale - 2 * t)

\* the number of pixels of ti.ndrange((M.x, N.x), (M.y, N.y))
BoxSize(M, N) ==
    IF N[1] <= M[1] \/ N[2] <= M[2] THEN 0
    ELSE (N[1] - M[1]) * (N[2] - M[2])

\* the k-th pixel (k = 1, 2, ...) of ti.ndrange((M.x, N.x), (M.y, N.y))
BoxPixel(M, N, k) ==
    <<M[1] + ((k - 1) \div (N[2] - M[2])), M[2] + ((k - 1) % (N[2] - M[2]))>>

InBox(M, N, Xp) ==
    /\ M[1] <= Xp[1] /\ Xp[1] < N[1]
    /\ M[2] <= Xp[2] /\ Xp[2] < N[2]

\* scene.img: the pixels 0..Res-1 in x and in y
Res == MaxPix + 3
Pixels == {<<x, y>> : x \in 0..(Res - 1), y \in 0..(Res - 1)}

NoWrite == [op |-> "none", val |-> vec3(0)]

\* the pixel after a write: plain store, ti.atomic_min, ti.atomic_max
Apply(px, w) ==
    CASE w.op = "set" -> w.val
      [] w.op = "min" -> <<Min(px[1], w.val[1]), Min(px[2], w.val[2]),
                           Min(px[3], w.val[3])>>
      [] w.op = "max" -> <<Max(px[1], w.val[1]), Max(px[2], w.val[2]),
                           Max(px[3], w.val[3])>>
      [] OTHER -> px

---------------------------------------------------------------------------
(* Line *)

\* W = 1
LineW == Scale

LineM(A, B) == <<Floor(Min(A[1], B[1]) - LineW), Floor(Min(A[2], B[2]) - LineW)>>
LineN(A, B) == <<Ceil(Max(A[1], B[1]) + LineW), Ceil(Max(A[2], B[2]) + LineW)>>

\* variant of LineUdf: without the two endpoint branches
LineUdf_no_clamp(A, B, Xp) ==
    LET Xf  == ToFloat(Xp)
        P   == Sub2(B, A)
        cr  == cross2(Xf, P) + cross2(B, A)
    IN  Div(Mul(cr, cr), norm_sqr2(P))

\* udf of Line.do_render at pixel Xp
LineUdf(A, B, Xp) ==
    LET Xf  == ToFloat(Xp)
        P   == Sub2(B, A)
        cr  == cross2(Xf, P) + cross2(B, A)
        XoP == dot2(Xf, P)
        AoB == dot2(A, B)
    IN  IF XoP > norm_sqr2(B) - AoB THEN norm_sqr2(Sub2(B, Xf))
        ELSE IF XoP < AoB - norm_sqr2(A) THEN norm_sqr2(Sub2(A, Xf))
        ELSE Div(Mul(cr, cr), norm_sqr2(P))

\* variant of LineWrite: the coverage stored instead of min-merged
LineWrite_store(A, B, Xp) ==
    LET udf == LineUdf(A, B, Xp)
    IN  IF udf < 0 THEN [op |-> "set", val |-> vec3(Scale)]
        ELSE IF udf < Mul(LineW, LineW)
        THEN [op |-> "set", val |-> vec3(smoothstep(udf, 0, Mul(LineW, LineW)))]
        ELSE NoWrite

\* variant of LineWrite: the opaque-white branch taken at udf = 0
LineWrite_on_line_white(A, B, Xp) ==
    LET udf == LineUdf(A, B, Xp)
    IN  IF udf <= 0 THEN [op |-> "set", val |-> vec3(Scale)]
        ELSE IF udf < Mul(LineW, LineW)
        THEN [op |-> "min", val |-> vec3(smoothstep(udf, 0, Mul(LineW, LineW)))]
        ELSE NoWrite

\* what Line.do_render does to pixel Xp of its bounding box
LineWrite(A, B, Xp) ==
    LET udf == LineUdf(A, B, Xp)
    IN  IF udf < 0 THEN [op |-> "set", val |-> vec3(Scale)]
        ELSE IF udf < Mul(LineW, LineW)
        THEN [op |-> "min", val |-> vec3(smoothstep(udf, 0, Mul(LineW, LineW)))]
        ELSE NoWrite

\* Line.make_one
LineMakeOne(i) == [a |-> a[i], b |-> b[i]]

\* Triangle.make_one
TriangleMakeOne(i) == [a |-> a[i], b |-> b[i], c |-> c[i]]

\* Triangle.to_lines
to_lines(self) ==
    <<[a |-> self.b, b |-> self.c], [a |-> self.c, b |-> self.a],
      [a |-> self.a, b |-> self.b]>>

\* the Line instances a pass renders: the batch's (Line.render), or the three
\* edges of the triangle (Triangle.do_render_stroke)
Lines ==
    IF pc \in {"Triangle.render_stroke", "Triangle.render_stroke_done"}
    THEN to_lines(TriangleMakeOne(1))
    ELSE [i \in 1..Len(a) |-> LineMakeOne(i)]

LineBoxSize(l) == BoxSize(LineM(l.a, l.b), LineN(l.a, l.b))
LineBoxPixel(l, k) == BoxPixel(LineM(l.a, l.b), LineN(l.a, l.b), k)

\* screen coordinates: the half-pixel lattice 1 .. MaxPix
HalfCoords == {(k * Scale) \div 2 : k \in 2..(2 * MaxPix)}
ScreenPoints == {<<x, y>> : x \in HalfCoords, y \in HalfCoords}
\* the endpoints of the instances of two-instance batches
CornerPoints == {<<x, y>> : x \in {Scale, 2 * Scale}, y \in {Scale, 2 * Scale}}
\* the vertices of stroked triangles
StrokePoints == CornerPoints \cup {<<(3 * Scale) \div 2, 3 * Scale>>}

Backgrounds == {vec3(Scale), <<Scale, Scale \div 2, 0>>}

InitRTIdle ==
    /\ pos = <<>> /\ radius = <<>> /\ p = Idle3 /\ orig = Idle3
    /\ dir = Idle3 /\ I = 0 /\ ret = 0 /\ normal = Idle3

InitImage(n) ==
    /\ \E bg \in Backgrounds : img = [px \in Pixels |-> bg]
    /\ img0 = img
    /\ X = [k \in 1..n |-> 1]
    /\ wrote = [k \in 1..n |-> [px \in Pixels |-> NoWrite]]

InitLine ==
    /\ InitRTIdle
    /\ color = <<>>
    /\ \/ /\ pc = "Line.render"
          /\ \E A \in ScreenPoints, B \in ScreenPoints :
                A # B /\ a = <<A>> /\ b = <<B>>
          /\ c = <<>>
          /\ InitImage(1)
       \/ /\ pc = "Line.render"
          /\ a \in [1..2 -> CornerPoints]
          /\ b \in [1..2 -> CornerPoints]
          /\ \A i \in 1..2 : a[i] # b[i]
          /\ c = <<>>
          /\ InitImage(2)
       \/ /\ pc = "Triangle.render_stroke"
          /\ \E A \in StrokePoints, B \in StrokePoints, C \in StrokePoints :
                A # B /\ B # C /\ C # A /\ a = <<A>> /\ b = <<B>> /\ c = <<C>>
          /\ InitImage(3)

\* one iteration of the pixel loop of the k-th Line's do_render
LinePixel(k) ==
    /\ X[k] <= LineBoxSize(Lines[k])
    /\ LET l  == Lines[k]
           Xp == LineBoxPixel(l, X[k])
           w  == LineWrite(l.a, l.b, Xp)
       IN  /\ img' = [img EXCEPT ![Xp] = Apply(@, w)]
           /\ wrote' = [wrote EXCEPT ![k][Xp] = w]
    /\ X' = [X EXCEPT ![k] = @ + 1]
    /\ UNCHANGED <<pc, a, b, c, color, img0>>
    /\ UNCHANGED rtVars

\* ObjectGE.render over a Line batch: the instances' pixel loops, in any
\* interleaving (a step is one pixel: the three per-channel atomics of one
\* ti.atomic_min on a vec3 are taken together)
LineRenderPixel ==
    /\ pc = "Line.render"
    /\ \E k \in 1..Len(a) : LinePixel(k)

\* Triangle.do_render_stroke: A.do_render, then B.do_render, then C.do_render
StrokeRenderPixel ==
    /\ pc = "Triangle.render_stroke"
    /\ \E k \in 1..3 :
          /\ \A j \in 1..(k - 1) : X[j] > LineBoxSize(Lines[j])
          /\ LinePixel(k)

LineRenderReturn ==
    /\ pc = "Line.render"
    /\ \A k \in 1..Len(a) : X[k] > LineBoxSize(Lines[k])
    /\ pc' = "Line.render_done"
    /\ UNCHANGED rtVars
    /\ UNCHANGED geVars

StrokeRenderReturn ==
    /\ pc = "Triangle.render_stroke"
    /\ \A k \in 1..3 : X[k] > LineBoxSize(Lines[k])
    /\ pc' = "Triangle.render_stroke_done"
    /\ UNCHANGED rtVars
    /\ UNCHANGED geVars

NextLine ==
    LineRenderPixel \/ StrokeRenderPixel \/ LineRenderReturn \/ StrokeRenderReturn

SpecLine == InitLine /\ [][NextLine]_vars

---------------------------------------------------------------------------
(* Triangle *)

\* W = 0.4
TriW == (2 * Scale) \div 5

Min3(x, y, z) == Min(x, Min(y, z))
Max3(x, y, z) == Max(x, Max(y, z))

TriM(A, B, C) == <<Floor(Min3(A[1], B[1], C[1]) - TriW),
                   Floor(Min3(A[2], B[2], C[2]) - TriW)>>
TriN(A, B, C) == <<Ceil(Max3(A[1], B[1], C[1]) + TriW),
                   Ceil(Max3(A[2], B[2], C[2]) + TriW)>>

\* variant of EdgeFunction: the sign reversed
EdgeFunction_flipped(Q, R, Xp) ==
    LET R_Q  == Sub2(R, Q)
        il   == Div(Scale, length2(R_Q))
        R_Qn == <<Mul(R_Q[1], il), Mul(R_Q[2], il)>>
        RxQ  == Mul(cross2(R, Q), il)
    IN  0 - (cross2(ToFloat(Xp), R_Qn) + RxQ)

\* the edge function of the edge from Q to R at pixel Xp:
\* AB = cross(X, B_A) + BxA with B_A and BxA scaled by 1 / length(B - A)
EdgeFunction(Q, R, Xp) ==
    LET R_Q  == Sub2(R, Q)
        il   == Div(Scale, length2(R_Q))
        R_Qn == <<Mul(R_Q[1], il), Mul(R_Q[2], il)>>
        RxQ  == Mul(cross2(R, Q), il)
    IN  cross2(ToFloat(Xp), R_Qn) + RxQ

\* udf = max(AB, BC, CA)
TriUdf(A, B, C, Xp) ==
    Max3(EdgeFunction(A, B, Xp), EdgeFunction(B, C, Xp), EdgeFunction(C, A, Xp))

\* what Triangle.do_render does to pixel Xp of its bounding box
TriWrite(A, B, C, col, Xp) ==
    LET udf == TriUdf(A, B, C, Xp)
    IN  IF udf < 0 THEN [op |-> "set", val |-> col]
        ELSE IF udf < TriW
        THEN [op |-> "max", val |-> Times3(col, smoothstep(udf, TriW, 0))]
        ELSE NoWrite

TriBoxSize(t) == BoxSize(TriM(t.a, t.b, t.c), TriN(t.a, t.b, t.c))
TriBoxPixel(t, k) == BoxPixel(TriM(t.a, t.b, t.c), TriN(t.a, t.b, t.c), k)

\* screen coordinates of the vertices: the pixel lattice 1 .. MaxPix
TriPoints == {<<x * Scale, y * Scale>> : x \in 1..MaxPix, y \in 1..MaxPix}

\* the triangles of two-instance batches: three overlapping ones that wind
\* one way and one that winds the other way
PairTriangles ==
    {[a |-> <<Scale, Scale>>, b |-> <<3 * Scale, Scale>>, c |-> <<2 * Scale, 3 * Scale>>],
     [a |-> <<Scale, 3 * Scale>>, b |-> <<Scale, Scale>>, c |-> <<3 * Scale, 2 * Scale>>],
     [a |-> <<Scale, Scale>>, b |-> <<3 * Scale, Scale>>, c |-> <<Scale, 3 * Scale>>],
     [a |-> <<Scale, Scale>>, b |-> <<2 * Scale, 3 * Scale>>, c |-> <<3 * Scale, Scale>>]}

\* the flat colours scene.opt.render_func / pre_process give the instances
Colors == <<<<Scale \div 2, Scale, Scale \div 5>>, <<Scale, Scale \div 5, Scale \div 2>>>>

TriBackgrounds == {vec3(0), <<Scale \div 5, Scale, Scale>>}

InitTri ==
    /\ InitRTIdle
    /\ pc = "Triangle.render"
    /\ \/ /\ \E A \in TriPoints, B \in TriPoints, C \in TriPoints :
                A # B /\ B # C /\ C # A /\ a = <<A>> /\ b = <<B>> /\ c = <<C>>
          /\ color = <<Colors[1]>>
          /\ img = [px \in Pixels |-> vec3(0)]
          /\ img0 = img
          /\ X = <<1>>
          /\ wrote = <<[px \in Pixels |-> NoWrite]>>
       \/ /\ \E t1 \in PairTriangles, t2 \in PairTriangles :
                /\ a = <<t1.a, t2.a>>
                /\ b = <<t1.b, t2.b>>
                /\ c = <<t1.c, t2.c>>
          /\ color = Colors
          /\ \E bg \in TriBackgrounds : img = [px \in Pixels |-> bg]
          /\ img0 = img
          /\ X = <<1, 1>>
          /\ wrote = [k \in 1..2 |-> [px \in Pixels |-> NoWrite]]

\* ObjectGE.render over a Triangle batch: one iteration of the pixel loop of
\* one instance's do_render, the instances' loops in any interleaving
TriangleRenderPixel ==
    /\ pc = "Triangle.render"
    /\ \E k \in 1..Len(a) :
          /\ X[k] <= TriBoxSize(TriangleMakeOne(k))
          /\ LET t  == TriangleMakeOne(k)
                 Xp == TriBoxPixel(t, X[k])
                 w  == TriWrite(t.a, t.b, t.c, color[k], Xp)
             IN  /\ img' = [img EXCEPT ![Xp] = Apply(@, w)]
                 /\ wrote' = [wrote EXCEPT ![k][Xp] = w]
          /\ X' = [X EXCEPT ![k] = @ + 1]
    /\ UNCHANGED <<pc, a, b, c, color, img0>>
    /\ UNCHANGED rtVars

TriangleRenderReturn ==
    /\ pc = "Triangle.render"
    /\ \A k \in 1..Len(a) : X[k] > TriBoxSize(TriangleMakeOne(k))
    /\ pc' = "Triangle.render_done"
    /\ UNCHANGED rtVars
    /\ UNCHANGED geVars

NextTri == TriangleRenderPixel \/ TriangleRenderReturn

SpecTri == InitTri /\ [][NextTri]_vars

---------------------------------------------------------------------------
(* Properties of the Ball batch *)

Instances == 1..Len(pos)

SetMin(S) == CHOOSE m \in S : \A v \in S : m <= v

\* |pos_i - p| - radius_i, written out from the batch's arrays
SdfOf(i) == distance(pos[i], p) - radius[i]

\* C1: when calc_sdf has returned, its result is the minimum over the
\* instances of the batch of (distance(pos_i, p) - radius_i).
C1_CalcSdfIsMin ==
    pc = "calc_sdf_done" => ret = SetMin({SdfOf(i) : i \in Instances})

\* calc_sdf returned for a two-instance batch whose second instance is the
\* nearer one, with the query point inside it
C1_Witness ==
    /\ pc = "calc_sdf_done"
    /\ Len(pos) = 2
    /\ SdfOf(2) < SdfOf(1)
    /\ SdfOf(2) < 0
    /\ ret = SdfOf(2)

\* the ray/sphere quadratic of instance i, from the batch's arrays
OpOf(i)   == Sub3(pos[i], orig)
BOf(i)    == dot3(OpOf(i), dir)
DetOf(i)  == Mul(BOf(i), BOf(i)) - norm_sqr3(OpOf(i)) + Mul(radius[i], radius[i])
NearOf(i) == BOf(i) - Sqrt(DetOf(i))
FarOf(i)  == BOf(i) + Sqrt(DetOf(i))

\* instance i has a positive discriminant and a root greater than EPS
HasRoot(i) == DetOf(i) > 0 /\ (NearOf(i) > EPS \/ FarOf(i) > EPS)

\* the accepted root: the near root if it exceeds EPS, otherwise the far one
AcceptedRoot(i) == IF NearOf(i) > EPS THEN NearOf(i) ELSE FarOf(i)

\* C2: when intersect has returned: if some instance has an accepted root
\* the distance is finite and is the least accepted root over the
\* instances; if none has, the distance is INF.
C2_IntersectIsMinRoot ==
    pc = "intersect_done" =>
        LET hit == {i \in Instances : HasRoot(i)}
        IN  IF hit # {}
            THEN ret < INF /\ ret = SetMin({AcceptedRoot(i) : i \in hit})
            ELSE ret = INF

\* intersect returned for a batch whose first instance is left by the ray
\* (the ray starts inside: far root only) and whose second is entered by it
\* (near root beyond EPS), the second being the nearer hit
C2_Witness ==
    /\ pc = "intersect_done"
    /\ Len(pos) = 2
    /\ HasRoot(1) /\ NearOf(1) <= EPS
    /\ HasRoot(2) /\ NearOf(2) > EPS
    /\ NearOf(2) < FarOf(1)
    /\ ret = NearOf(2)

\* C3 as stated: a one-instance batch returns what the instance returns, for
\* calc_sdf and for intersect (distance and normal), misses included.
C3_Original ==
    /\ (pc = "calc_sdf_done" /\ Len(pos) = 1)
          => ret = do_calc_sdf(BallMakeOne(1), p)
    /\ (pc = "intersect_done" /\ Len(pos) = 1)
          => <<ret, normal>> = do_intersect(BallMakeOne(1), orig, dir)

\* C3 (amended): for a one-instance batch calc_sdf returns the instance's
\* do_calc_sdf, intersect returns the instance's distance, and the
\* instance's normal whenever that distance is below INF; on a miss the
\* batch returns the zero normal, which is not the instance's.
C3_SingleInstance ==
    /\ (pc = "calc_sdf_done" /\ Len(pos) = 1)
          => ret = do_calc_sdf(BallMakeOne(1), p)
    /\ (pc = "intersect_done" /\ Len(pos) = 1)
          => LET tn == do_intersect(BallMakeOne(1), orig, dir)
             IN  /\ ret = tn[1]
                 /\ tn[1] < INF => normal = tn[2]
                 /\ tn[1] = INF => (normal = vec3(0) /\ normal # tn[2])

\* intersect returned for a one-instance batch that the ray hits
C3_Witness ==
    /\ pc = "intersect_done"
    /\ Len(pos) = 1
    /\ ret < INF
    /\ normal = do_intersect(BallMakeOne(1), orig, dir)[2]
    /\ normal # vec3(0)

\* C8: an instance whose discriminant is exactly 0 yields distance INF from
\* do_intersect, and a batch all of whose instances are tangent to the ray
\* returns INF from intersect.
C8_TangentMisses ==
    /\ \A i \in Instances :
          (pc \in {"intersect", "intersect_done"} /\ DetOf(i) = 0)
              => do_intersect(BallMakeOne(i), orig, dir)[1] = INF
    /\ (pc = "intersect_done" /\ \A i \in Instances : DetOf(i) = 0)
          => ret = INF

\* intersect returned for a batch of two balls, both ahead of the ray and
\* tangent to it
C8_Witness ==
    /\ pc = "intersect_done"
    /\ Len(pos) = 2
    /\ \A i \in Instances : DetOf(i) = 0 /\ BOf(i) > EPS
    /\ pos[1] # pos[2]
    /\ ret = INF

\* the first instance, in iteration order, whose do_intersect distance is
\* the least of the batch
FirstMinimal ==
    LET t(i) == do_intersect(BallMakeOne(i), orig, dir)[1]
        m    == SetMin({t(i) : i \in Instances})
    IN  SetMin({i \in Instances : t(i) = m})

\* C9 as stated: the pair returned is always the pair of one instance, the
\* first of those with the minimal distance.
C9_Original ==
    pc = "intersect_done" =>
        <<ret, normal>> = do_intersect(BallMakeOne(FirstMinimal), orig, dir)

\* C9 (amended): if some instance's distance is below INF, the pair returned
\* is the pair of the first instance with the minimal distance; if none is,
\* the pair returned is <<INF, zero vector>>, which no instance produced.
C9_FirstMinimalWins ==
    pc = "intersect_done" =>
        LET tn == do_intersect(BallMakeOne(FirstMinimal), orig, dir)
        IN  IF tn[1] < INF
            THEN <<ret, normal>> = tn
            ELSE /\ <<ret, normal>> = <<INF, vec3(0)>>
                 /\ \A i \in Instances :
                       do_intersect(BallMakeOne(i), orig, dir) # <<ret, normal>>

\* intersect returned for two instances hit at the same distance with
\* different normals, and returned the first one's pair
C9_Witness ==
    /\ pc = "intersect_done"
    /\ Len(pos) = 2
    /\ LET t1 == do_intersect(BallMakeOne(1), orig, dir)
           t2 == do_intersect(BallMakeOne(2), orig, dir)
       IN  /\ t1[1] = t2[1] /\ t1[1] < INF
           /\ t1[2] # t2[2]
           /\ <<ret, normal>> = t1

---------------------------------------------------------------------------
(* Properties of Line rendering *)

\* Screen geometry in exact integers: lattice coordinates and pixels counted
\* in half pixels.
HalfUnits(v) == <<v[1] \div (Scale \div 2), v[2] \div (Scale \div 2)>>
PixelHalfUnits(Xp) == <<2 * Xp[1], 2 * Xp[2]>>
IDot(u, v) == u[1] * v[1] + u[2] * v[2]
ICross(u, v) == u[1] * v[2] - u[2] * v[1]

\* the squared Euclidean distance from pixel Xp to the segment AB is below
\* W^2 = 1 (4 in half pixels): the perpendicular distance where Xp projects
\* onto the segment, the distance to the nearer endpoint elsewhere
NearSegment(Xp, A, B) ==
    LET d  == Sub2(HalfUnits(B), HalfUnits(A))
        e  == Sub2(PixelHalfUnits(Xp), HalfUnits(A))
        f  == Sub2(PixelHalfUnits(Xp), HalfUnits(B))
    IN  IF IDot(e, d) <= 0 THEN IDot(e, e) < 4
        ELSE IF IDot(e, d) >= IDot(d, d) THEN IDot(f, f) < 4
        ELSE ICross(e, d) * ICross(e, d) < 4 * IDot(d, d)

\* pixel Xp lies on the segment AB
OnSegment(Xp, A, B) ==
    LET d  == Sub2(HalfUnits(B), HalfUnits(A))
        e  == Sub2(PixelHalfUnits(Xp), HalfUnits(A))
    IN  ICross(e, d) = 0 /\ 0 <= IDot(e, d) /\ IDot(e, d) <= IDot(d, d)

LineDone(k) == X[k] > LineBoxSize(Lines[k])
LinePass == pc \in {"Line.render", "Line.render_done",
                    "Triangle.render_stroke", "Triangle.render_stroke_done"}

\* C7: once a Line instance has scanned its bounding box, the pixels it
\* min-merged a coverage into are exactly the pixels of the image whose
\* distance to the segment is below W; a pixel on the segment was merged
\* with coverage 0; every other pixel was not written by it.
C7_LineCoversNearPixels ==
    LinePass =>
        \A k \in 1..Len(Lines) : LineDone(k) =>
            \A px \in Pixels :
                LET w == wrote[k][px]
                    l == Lines[k]
                IN  /\ w.op = "min" <=> NearSegment(px, l.a, l.b)
                    /\ w.op \in {"min", "none"}
                    /\ OnSegment(px, l.a, l.b) => w = [op |-> "min", val |-> vec3(0)]

\* a slanted segment between half-pixel endpoints was rendered: a pixel on it
\* was merged with 0, a pixel beyond its end was merged (endpoint distance),
\* and a pixel of its bounding box at distance >= W was left alone
C7_Witness ==
    /\ pc = "Line.render_done"
    /\ Len(a) = 1
    /\ a[1][1] # b[1][1] /\ a[1][2] # b[1][2]
    /\ a[1][1] % Scale # 0
    /\ \E px \in Pixels : OnSegment(px, a[1], b[1]) /\ img[px] = vec3(0)
    /\ \E px \in Pixels :
          LET d == Sub2(HalfUnits(b[1]), HalfUnits(a[1]))
              e == Sub2(PixelHalfUnits(px), HalfUnits(a[1]))
          IN  IDot(e, d) > IDot(d, d) /\ wrote[1][px].op = "min"
    /\ \E px \in Pixels :
          /\ InBox(LineM(a[1], b[1]), LineN(a[1], b[1]), px)
          /\ wrote[1][px].op = "none"

\* the write of Line k to pixel px: that of its scan inside its bounding
\* box, none outside
LineWriteAt(k, px) ==
    LET l == Lines[k]
    IN  IF InBox(LineM(l.a, l.b), LineN(l.a, l.b), px)
        THEN LineWrite(l.a, l.b, px) ELSE NoWrite

\* the image after Line j is rendered completely, then Line k
LineSerialImage(j, k) ==
    [px \in Pixels |-> Apply(Apply(img0[px], LineWriteAt(j, px)), LineWriteAt(k, px))]

\* C4: when a batch of two Line instances has been rendered, under whatever
\* interleaving of the two pixel loops, the image is the one of rendering
\* the first then the second, and the one of rendering the second then the
\* first.
C4_LineOrderIndependent ==
    (pc = "Line.render_done" /\ Len(a) = 2) =>
        /\ img = LineSerialImage(1, 2)
        /\ img = LineSerialImage(2, 1)

\* two different segments were rendered and some pixel was merged by both,
\* with different coverages, and holds the smaller one
C4_Witness ==
    /\ pc = "Line.render_done"
    /\ Len(a) = 2
    /\ img0 = [px \in Pixels |-> vec3(Scale)]
    /\ \E px \in Pixels :
          /\ wrote[1][px].op = "min" /\ wrote[2][px].op = "min"
          /\ wrote[2][px].val[1] < wrote[1][px].val[1]
          /\ img[px] = wrote[2][px].val
    /\ \E px \in Pixels :
          /\ wrote[1][px].op = "min" /\ wrote[2][px].op = "min"
          /\ wrote[1][px].val[1] < wrote[2][px].val[1]

\* C10: during and after Line.render and Triangle.render_stroke, no Line
\* stores a pixel unconditionally: every write is a per-channel min with a
\* value in [0, 1]; every channel of every pixel is at most its initial
\* value; a pixel outside all bounding boxes is unchanged.
C10_StrokesOnlyDarken ==
    LinePass =>
        /\ \A k \in 1..Len(Lines) : \A px \in Pixels :
              /\ wrote[k][px].op \in {"none", "min"}
              /\ wrote[k][px].op = "min" =>
                    \A ch \in 1..3 : wrote[k][px].val[ch] \in 0..Scale
        /\ \A px \in Pixels : \A ch \in 1..3 : img[px][ch] <= img0[px][ch]
        /\ \A px \in Pixels :
              (\A k \in 1..Len(Lines) :
                  ~InBox(LineM(Lines[k].a, Lines[k].b), LineN(Lines[k].a, Lines[k].b), px))
                  => img[px] = img0[px]

\* a triangle was stroked on a coloured image: some pixel was darkened in
\* one channel and kept in another, some scanned pixel was left alone, and
\* some pixel lies outside the three bounding boxes
C10_Witness ==
    /\ pc = "Triangle.render_stroke_done"
    /\ img0 = [px \in Pixels |-> <<Scale, Scale \div 2, 0>>]
    /\ \E px \in Pixels : img[px][1] < img0[px][1] /\ img[px][3] = img0[px][3]
    /\ \E px \in Pixels : \E k \in 1..3 :
          /\ wrote[k][px].op = "min"
          /\ wrote[k][px].val[2] > img0[px][2]
    /\ \E px \in Pixels :
          \A k \in 1..3 :
              ~InBox(LineM(Lines[k].a, Lines[k].b), LineN(Lines[k].a, Lines[k].b), px)

---------------------------------------------------------------------------
(* Properties of Triangle rendering *)

PixelUnits(v) == <<v[1] \div Scale, v[2] \div Scale>>

\* twice the signed area of the triangle ABC
Winding(A, B, C) ==
    ICross(Sub2(PixelUnits(B), PixelUnits(A)), Sub2(PixelUnits(C), PixelUnits(A)))

\* pixel Xp lies strictly inside the triangle ABC: strictly on the inner
\* side of each of the three edges
StrictlyInside(Xp, A, B, C) ==
    LET s1 == ICross(Sub2(PixelUnits(B), PixelUnits(A)), Sub2(Xp, PixelUnits(A)))
        s2 == ICross(Sub2(PixelUnits(C), PixelUnits(B)), Sub2(Xp, PixelUnits(B)))
        s3 == ICross(Sub2(PixelUnits(A), PixelUnits(C)), Sub2(Xp, PixelUnits(C)))
    IN  \/ Winding(A, B, C) > 0 /\ s1 > 0 /\ s2 > 0 /\ s3 > 0
        \/ Winding(A, B, C) < 0 /\ s1 < 0 /\ s2 < 0 /\ s3 < 0

TriDone(k) == X[k] > TriBoxSize(TriangleMakeOne(k))
TriPass == pc \in {"Triangle.render", "Triangle.render_done"}

\* the instance wrote nothing outside its half-open bounding box
TriNothingOutsideBox(k) ==
    LET t == TriangleMakeOne(k)
    IN  \A px \in Pixels :
            ~InBox(TriM(t.a, t.b, t.c), TriN(t.a, t.b, t.c), px)
                => wrote[k][px] = NoWrite

\* C6 as stated: once a non-degenerate triangle has scanned its bounding
\* box, every pixel strictly inside it was overwritten with its colour, and
\* nothing outside the bounding box was written.
C6_Original ==
    TriPass =>
        \A k \in 1..Len(a) :
            (TriDone(k) /\ Winding(a[k], b[k], c[k]) # 0) =>
                /\ \A px \in Pixels :
                      StrictlyInside(px, a[k], b[k], c[k])
                          => wrote[k][px] = [op |-> "set", val |-> color[k]]
                /\ TriNothingOutsideBox(k)

\* C6 (amended): once a triangle has scanned its bounding box: if A, B, C
\* wind positively (cross(B - A, C - A) > 0), every pixel strictly inside it
\* was overwritten with its colour; if they wind negatively, no pixel was
\* overwritten; in both cases nothing outside the bounding box was written.
C6_InsideOverwritten ==
    TriPass =>
        \A k \in 1..Len(a) :
            TriDone(k) =>
                /\ Winding(a[k], b[k], c[k]) > 0 =>
                      \A px \in Pixels :
                          StrictlyInside(px, a[k], b[k], c[k])
                              => wrote[k][px] = [op |-> "set", val |-> color[k]]
                /\ Winding(a[k], b[k], c[k]) < 0 =>
                      \A px \in Pixels : wrote[k][px].op # "set"
                /\ TriNothingOutsideBox(k)

\* a positively wound triangle was rendered on a black image: a pixel
\* strictly inside it holds its colour, a pixel of its bounding box was
\* max-merged and another left alone, and a pixel lies outside the box
C6_Witness ==
    /\ pc = "Triangle.render_done"
    /\ Len(a) = 1
    /\ Winding(a[1], b[1], c[1]) > 0
    /\ \E px \in Pixels :
          StrictlyInside(px, a[1], b[1], c[1]) /\ img[px] = color[1]
    /\ \E px \in Pixels : wrote[1][px].op = "max"
    /\ \E px \in Pixels :
          /\ InBox(TriM(a[1], b[1], c[1]), TriN(a[1], b[1], c[1]), px)
          /\ wrote[1][px] = NoWrite
    /\ \E px \in Pixels :
          ~InBox(TriM(a[1], b[1], c[1]), TriN(a[1], b[1], c[1]), px)

\* the write of Triangle k to pixel px: that of its scan inside its bounding
\* box, none outside
TriWriteAt(k, px) ==
    LET t == TriangleMakeOne(k)
    IN  IF InBox(TriM(t.a, t.b, t.c), TriN(t.a, t.b, t.c), px)
        THEN TriWrite(t.a, t.b, t.c, color[k], px) ELSE NoWrite

\* the image after Triangle j is rendered completely, then Triangle k
TriSerialImage(j, k) ==
    [px \in Pixels |-> Apply(Apply(img0[px], TriWriteAt(j, px)), TriWriteAt(k, px))]

\* C5: when a batch of two Triangle instances has been rendered, under
\* whatever interleaving of the two pixel loops, the image is the one of
\* rendering the first then the second, and the one of rendering the second
\* then the first.
C5_FillOrderIndependent ==
    (pc = "Triangle.render_done" /\ Len(a) = 2) =>
        /\ img = TriSerialImage(1, 2)
        /\ img = TriSerialImage(2, 1)

=============================================================================
